---- MODULE Spec2Model ----
(***************************************************************************)
(* Model of homework.py: the Training hierarchy (Running, SportsWalking,   *)
(* Swimming), the read_package dispatcher and the session operations.      *)
(*                                                                         *)
(* Numbers are exact rationals <<n, d>> (d > 0, lowest terms).  Python's   *)
(* floats are abstracted to the exact values of the decimal literals, so   *)
(* equalities here are the "within floating tolerance" equalities of the   *)
(* program.  A raised exception is a result whose exc field is not "none". *)
(***************************************************************************)
EXTENDS Integers, Sequences, FiniteSets, TLC

VARIABLES pkg, outcome, training, call, first

vars == <<pkg, outcome, training, call, first>>

----------------------------------------------------------------------------
(* Bounds *)

\* longest data list handed to read_package
MaxDataLen == 5

----------------------------------------------------------------------------
(* Exact rational arithmetic standing for Python's float arithmetic *)

RECURSIVE GCD(_, _)
GCD(a, b) == IF b = 0 THEN a ELSE GCD(b, a % b)

Abs(x) == IF x < 0 THEN -x ELSE x

Norm(n, d) ==
    LET g == GCD(Abs(n), Abs(d))
        s == IF d < 0 THEN -1 ELSE 1
    IN  <<(s * n) \div g, (s * d) \div g>>

R(n) == <<n, 1>>

RMul(a, b) ==
    LET g1 == GCD(Abs(a[1]), b[2])
        g2 == GCD(Abs(b[1]), a[2])
    IN  Norm((a[1] \div g1) * (b[1] \div g2), (a[2] \div g2) * (b[2] \div g1))

RAdd(a, b) == Norm(a[1] * b[2] + b[1] * a[2], a[2] * b[2])

RSub(a, b) == Norm(a[1] * b[2] - b[1] * a[2], a[2] * b[2])

RLess(a, b) == a[1] * b[2] < b[1] * a[2]

IsZero(a) == a[1] = 0

\* results of an evaluation: a value, or a raised exception
NoVal == <<>>

Ret(v) == [exc |-> "none", val |-> v]

Raise(e) == [exc |-> e, val |-> NoVal]

\* Python true division a / b
TrueDiv(a, b) ==
    IF IsZero(b) THEN Raise("ZeroDivisionError")
    ELSE Ret(Norm(a[1] * b[2], a[2] * b[1]))

FloorDiv_Real(a, b) == TrueDiv(a, b)

\* Python floor division a // b (the result is a whole number)
FloorDiv(a, b) ==
    IF IsZero(b) THEN Raise("ZeroDivisionError")
    ELSE LET q == Norm(a[1] * b[2], a[2] * b[1])
         IN  Ret(R(q[1] \div q[2]))

----------------------------------------------------------------------------
(* Class constants *)

Classes == {"Running", "SportsWalking", "Swimming"}

LEN_STEP_NoOverride(cls) == <<13, 20>>

\* Training.LEN_STEP = 0.65, overridden by Swimming.LEN_STEP = 1.38
LEN_STEP(cls) == IF cls = "Swimming" THEN <<69, 50>> ELSE <<13, 20>>

M_IN_KM == 1000

MINUTE == 60

Running_COEFF_CALORIE_1 == 18

Running_COEFF_CALORIE_2 == 20

\* 0.035
SportsWalking_COEFF_CALORIE_1 == <<7, 200>>

\* 0.029
SportsWalking_COEFF_CALORIE_2 == <<29, 1000>>

\* 1.1
Swimming_COEFF_CALORIE_1 == <<11, 10>>

----------------------------------------------------------------------------
(* Objects *)

\* an attribute the object does not have
Absent == <<>>

None == [cls |-> "None", action |-> Absent, duration_h |-> Absent,
         duration_m |-> Absent, weight |-> Absent, height |-> Absent,
         length_pool |-> Absent, count_pool |-> Absent]

Training__init__NoMinutes(cls, action, duration, weight) ==
    [cls |-> cls, action |-> action, duration_h |-> duration,
     duration_m |-> duration, weight |-> weight,
     height |-> Absent, length_pool |-> Absent, count_pool |-> Absent]

\* Training.__init__(self, action, duration, weight)
Training__init__(cls, action, duration, weight) ==
    [cls |-> cls, action |-> action, duration_h |-> duration,
     duration_m |-> RMul(duration, R(MINUTE)), weight |-> weight,
     height |-> Absent, length_pool |-> Absent, count_pool |-> Absent]

\* SportsWalking.__init__(self, action, duration, weight, height)
SportsWalking__init__(action, duration, weight, height) ==
    [Training__init__("SportsWalking", action, duration, weight)
        EXCEPT !.height = height]

\* Swimming.__init__(self, action, duration, weight, length_pool, count_pool)
Swimming__init__(action, duration, weight, length_pool, count_pool) ==
    [Training__init__("Swimming", action, duration, weight)
        EXCEPT !.length_pool = length_pool, !.count_pool = count_pool]

\* number of positional parameters of each constructor (self excluded)
Arity(cls) ==
    CASE cls = "Running" -> 3
      [] cls = "SportsWalking" -> 4
      [] cls = "Swimming" -> 5

\* training_class(*data)
Construct(cls, data) ==
    IF Len(data) # Arity(cls) THEN Raise("TypeError")
    ELSE CASE cls = "Running" ->
                Ret(Training__init__("Running", data[1], data[2], data[3]))
           [] cls = "SportsWalking" ->
                Ret(SportsWalking__init__(data[1], data[2], data[3], data[4]))
           [] cls = "Swimming" ->
                Ret(Swimming__init__(data[1], data[2], data[3], data[4],
                                     data[5]))

----------------------------------------------------------------------------
(* Methods; self is a constructed object *)

\* Training.get_distance
get_distance(self) ==
    TrueDiv(RMul(self.action, LEN_STEP(self.cls)), R(M_IN_KM))

Training_get_mean_speed_Guarded(self) ==
    LET distance == get_distance(self)
    IN  IF IsZero(self.duration_h) THEN Ret(R(0))
        ELSE TrueDiv(distance.val, self.duration_h)

\* Training.get_mean_speed
Training_get_mean_speed(self) ==
    LET distance == get_distance(self)
    IN  IF distance.exc # "none" THEN distance
        ELSE TrueDiv(distance.val, self.duration_h)

Swimming_get_mean_speed_NoOverride(self) == Training_get_mean_speed(self)

\* Swimming.get_mean_speed
Swimming_get_mean_speed(self) ==
    LET temp == RMul(self.length_pool, self.count_pool)
        km == TrueDiv(temp, R(M_IN_KM))
    IN  IF km.exc # "none" THEN km
        ELSE TrueDiv(km.val, self.duration_h)

\* method resolution of self.get_mean_speed()
get_mean_speed(self) ==
    IF self.cls = "Swimming" THEN Swimming_get_mean_speed(self)
    ELSE Training_get_mean_speed(self)

Running_get_spent_calories_Hours(self) ==
    LET speed == get_mean_speed(self)
    IN  IF speed.exc # "none" THEN speed
        ELSE LET temp1 == RMul(R(Running_COEFF_CALORIE_1), speed.val)
                 temp2 == RSub(temp1, R(Running_COEFF_CALORIE_2))
                 perKm == TrueDiv(RMul(temp2, self.weight), R(M_IN_KM))
             IN  Ret(RMul(perKm.val, self.duration_h))

\* Running.get_spent_calories
Running_get_spent_calories(self) ==
    LET speed == get_mean_speed(self)
    IN  IF speed.exc # "none" THEN speed
        ELSE LET temp1 == RMul(R(Running_COEFF_CALORIE_1), speed.val)
                 temp2 == RSub(temp1, R(Running_COEFF_CALORIE_2))
                 perKm == TrueDiv(RMul(temp2, self.weight), R(M_IN_KM))
             IN  IF perKm.exc # "none" THEN perKm
                 ELSE Ret(RMul(perKm.val, self.duration_m))

\* SportsWalking.get_spent_calories
SportsWalking_get_spent_calories(self) ==
    LET part_1 == RMul(SportsWalking_COEFF_CALORIE_1, self.weight)
        speed == get_mean_speed(self)
    IN  IF speed.exc # "none" THEN speed
        ELSE LET part_2 == FloorDiv(RMul(speed.val, speed.val), self.height)
                 part_3 == RMul(SportsWalking_COEFF_CALORIE_2, self.weight)
             IN  IF part_2.exc # "none" THEN part_2
                 ELSE Ret(RMul(RAdd(part_1, RMul(part_2.val, part_3)),
                               self.duration_m))

Swimming_get_spent_calories_PerMinute(self) ==
    LET speed == get_mean_speed(self)
    IN  IF speed.exc # "none" THEN speed
        ELSE Ret(RMul(RMul(RMul(RAdd(speed.val, Swimming_COEFF_CALORIE_1),
                                R(2)), self.weight), self.duration_m))

\* Swimming.get_spent_calories
Swimming_get_spent_calories(self) ==
    LET speed == get_mean_speed(self)
    IN  IF speed.exc # "none" THEN speed
        ELSE Ret(RMul(RMul(RAdd(speed.val, Swimming_COEFF_CALORIE_1), R(2)),
                      self.weight))

\* method resolution of self.get_spent_calories()
get_spent_calories(self) ==
    CASE self.cls = "Running" -> Running_get_spent_calories(self)
      [] self.cls = "SportsWalking" -> SportsWalking_get_spent_calories(self)
      [] self.cls = "Swimming" -> Swimming_get_spent_calories(self)

\* InfoMessage(training_type, duration, distance, speed, calories)
InfoMessage(training_type, duration, distance, speed, calories) ==
    [training_type |-> training_type, duration |-> duration,
     distance |-> distance, speed |-> speed, calories |-> calories]

\* Training.show_training_info: the keyword arguments are evaluated in order
show_training_info(self) ==
    LET distance == get_distance(self)
        speed == get_mean_speed(self)
        calories == get_spent_calories(self)
    IN  IF distance.exc # "none" THEN Raise(distance.exc)
        ELSE IF speed.exc # "none" THEN Raise(speed.exc)
        ELSE IF calories.exc # "none" THEN Raise(calories.exc)
        ELSE Ret(InfoMessage(self.cls, self.duration_h, distance.val,
                             speed.val, calories.val))

----------------------------------------------------------------------------
(* read_package *)

Codes == {"RUN", "SWM", "WLK"}

mapping_Swapped(workout_type) ==
    CASE workout_type = "RUN" -> "Running"
      [] workout_type = "SWM" -> "SportsWalking"
      [] workout_type = "WLK" -> "Swimming"

\* the mapping dictionary of read_package
mapping(workout_type) ==
    CASE workout_type = "RUN" -> "Running"
      [] workout_type = "SWM" -> "Swimming"
      [] workout_type = "WLK" -> "SportsWalking"

raise_exceptions_default_False == FALSE

\* the default of the parameter raise_exceptions
raise_exceptions_default == TRUE

\* the value of raise_exceptions inside the call; "omitted" takes the default
Effective(raise_exceptions) ==
    IF raise_exceptions = "omitted" THEN raise_exceptions_default
    ELSE raise_exceptions = "True"

\* read_package(workout_type, data, raise_exceptions): the returned object
\* (None when nothing is returned) or the raised exception
read_package(workout_type, data, raise_exceptions) ==
    IF workout_type \notin Codes
    THEN IF ~Effective(raise_exceptions) THEN Ret(None)
         ELSE Raise("ValueError")
    ELSE Construct(mapping(workout_type), data)

----------------------------------------------------------------------------
(* Inputs *)

WorkoutTypes == Codes \cup {"XYZ"}

RaiseModes == {"omitted", "True", "False"}

Actions == {R(720), R(9000), R(15000)}

Durations == {R(0), <<1, 2>>, R(1), R(2)}

Weights == {R(75), R(80)}

\* height of SportsWalking, length_pool of Swimming
Fourths == {R(0), R(25), R(180)}

\* count_pool of Swimming
Fifths == {R(40)}

Extras == {R(1)}

ArgVals(i) ==
    CASE i = 1 -> Actions
      [] i = 2 -> Durations
      [] i = 3 -> Weights
      [] i = 4 -> Fourths
      [] i = 5 -> Fifths
      [] OTHER -> Extras

DataLists ==
    UNION {{d \in [1..n -> UNION {ArgVals(i) : i \in 1..n}] :
               \A i \in 1..n : d[i] \in ArgVals(i)} : n \in 2..MaxDataLen}

----------------------------------------------------------------------------
(* State machine *)

SessionOps == {"get_distance", "get_mean_speed", "get_spent_calories",
               "show_training_info"}

\* the last call: its operation, its result, and whether the operation had
\* already been called on this object
NoCall == [op |-> "none", ret |-> Raise("unset"), again |-> FALSE]

NoPkg == [workout_type |-> "none", data |-> <<>>, raise_exceptions |-> "omitted"]

Init ==
    /\ pkg = NoPkg
    /\ outcome = "none"
    /\ training = None
    /\ call = NoCall
    /\ first = [op \in SessionOps |-> Raise("unset")]

\* the driver reads the first package, and the next one once main(training)
\* has returned: show_training_info was the one call on the object and it
\* succeeded
CanRead ==
    \/ call.op = "none"
    \/ /\ call.op = "show_training_info"
       /\ call.ret.exc = "none"
       /\ ~call.again
       /\ \A op \in SessionOps \ {"show_training_info"} :
              first[op].exc = "unset"

\* training = read_package(workout_type, data[, raise_exceptions])
ReadPackage ==
    /\ CanRead
    /\ \E workout_type \in WorkoutTypes, data \in DataLists,
       raise_exceptions \in RaiseModes :
        LET r == read_package(workout_type, data, raise_exceptions)
        IN
            /\ pkg' = [workout_type |-> workout_type, data |-> data,
                       raise_exceptions |-> raise_exceptions]
            /\ outcome' = IF r.exc # "none" THEN r.exc
                          ELSE IF r.val.cls = "None" THEN "None"
                          ELSE "Training"
            /\ training' = IF r.exc # "none" THEN None ELSE r.val
            /\ call' = [op |-> "read_package", ret |-> Raise("unset"),
                        again |-> FALSE]
            /\ first' = [op \in SessionOps |-> Raise("unset")]

Record(op, ret) ==
    /\ call' = [op |-> op, ret |-> ret, again |-> first[op].exc # "unset"]
    /\ first' = IF first[op].exc = "unset" THEN [first EXCEPT ![op] = ret]
                ELSE first

\* training.get_distance()
GetDistance ==
    /\ training.cls # "None"
    /\ Record("get_distance", get_distance(training))
    /\ UNCHANGED <<pkg, outcome, training>>

\* training.get_mean_speed()
GetMeanSpeed ==
    /\ training.cls # "None"
    /\ Record("get_mean_speed", get_mean_speed(training))
    /\ UNCHANGED <<pkg, outcome, training>>

GetSpentCalories_Storing ==
    /\ training.cls # "None"
    /\ Record("get_spent_calories", get_spent_calories(training))
    /\ training' = [training EXCEPT !.duration_m = training.duration_h]
    /\ UNCHANGED <<pkg, outcome>>

\* training.get_spent_calories()
GetSpentCalories ==
    /\ training.cls # "None"
    /\ Record("get_spent_calories", get_spent_calories(training))
    /\ UNCHANGED <<pkg, outcome, training>>

\* training.show_training_info()
ShowTrainingInfo ==
    /\ training.cls # "None"
    /\ Record("show_training_info", show_training_info(training))
    /\ UNCHANGED <<pkg, outcome, training>>

Next ==
    \/ ReadPackage
    \/ GetDistance
    \/ GetMeanSpeed
    \/ GetSpentCalories
    \/ ShowTrainingInfo

Spec == Init /\ [][Next]_vars

----------------------------------------------------------------------------
(* Properties *)

Positive(a) == a[1] > 0

Constructed == training.cls # "None"

Called(op) == Constructed /\ call.op = op

\* the quotient a / b of two rationals, b nonzero
Quot(a, b) == Norm(a[1] * b[2], a[2] * b[1])

\* the largest whole number not above the rational a
Floor(a) == R(a[1] \div a[2])

\* the fields of t are the values of data, bound positionally
BoundTo(t, data) ==
    /\ t.action = data[1]
    /\ t.duration_h = data[2]
    /\ t.weight = data[3]
    /\ t.cls = "Running" => t.height = Absent /\ t.length_pool = Absent
                            /\ t.count_pool = Absent
    /\ t.cls = "SportsWalking" => t.height = data[4]
                                  /\ t.length_pool = Absent
                                  /\ t.count_pool = Absent
    /\ t.cls = "Swimming" => t.height = Absent /\ t.length_pool = data[4]
                             /\ t.count_pool = data[5]

\* C1: read_package with a code other than "RUN", "SWM", "WLK" raises
\* ValueError when raise_exceptions is omitted or True and returns None when
\* it is False, whatever the data list; no object is constructed.
C1_UnknownCode ==
    (pkg.workout_type \notin {"none", "RUN", "SWM", "WLK"}) =>
        /\ training = None
        /\ pkg.raise_exceptions \in {"omitted", "True"}
              => outcome = "ValueError"
        /\ pkg.raise_exceptions = "False" => outcome = "None"

C1_Witness ==
    /\ pkg.workout_type = "XYZ"
    /\ pkg.raise_exceptions = "omitted"
    /\ Len(pkg.data) = 3
    /\ outcome = "ValueError"

\* C2: read_package with a known code constructs the mapped class with the
\* data values bound positionally when the number of values is the arity
\* of the class (3, 4, 5), and raises TypeError otherwise, for every value
\* of raise_exceptions.
C2_KnownCode ==
    (pkg.workout_type \in {"RUN", "SWM", "WLK"}) =>
        LET cls == CASE pkg.workout_type = "RUN" -> "Running"
                     [] pkg.workout_type = "SWM" -> "Swimming"
                     [] pkg.workout_type = "WLK" -> "SportsWalking"
            n == CASE cls = "Running" -> 3
                   [] cls = "SportsWalking" -> 4
                   [] cls = "Swimming" -> 5
        IN  IF Len(pkg.data) = n
            THEN /\ outcome = "Training"
                 /\ training.cls = cls
                 /\ BoundTo(training, pkg.data)
            ELSE /\ outcome = "TypeError"
                 /\ training = None

C2_Witness ==
    /\ pkg.workout_type = "SWM"
    /\ pkg.raise_exceptions = "False"
    /\ outcome = "Training"
    /\ training.cls = "Swimming"
    /\ training.count_pool = R(40)

\* the step lengths of the claim: 0.65 m, and 1.38 m for Swimming
StepLength(cls) == IF cls = "Swimming" THEN Norm(138, 100) ELSE Norm(65, 100)

\* the objects that differ from t at most in the fields other than action
SameAction(t) ==
    {[t EXCEPT !.duration_h = d, !.duration_m = RMul(d, R(60)), !.weight = w,
               !.height = x, !.length_pool = x, !.count_pool = y] :
        d \in Durations, w \in Weights, x \in Fourths, y \in Fifths}

\* C3: get_distance returns action * step_length / 1000 (0.65 m, 1.38 m for
\* Swimming), so get_distance() * 1000 / step_length is the action count;
\* it never raises and depends on no field other than action.
C3_Distance ==
    Called("get_distance") =>
        /\ call.ret.exc = "none"
        /\ call.ret.val = Quot(RMul(training.action,
                                    StepLength(training.cls)), R(1000))
        /\ Quot(RMul(call.ret.val, R(1000)), StepLength(training.cls))
              = training.action
        /\ \A t \in SameAction(training) : get_distance(t) = call.ret

C3_Witness ==
    /\ Called("get_distance")
    /\ training.cls = "Swimming"
    /\ training.duration_h = R(0)
    /\ call.ret.val = <<621, 625>>

\* the objects that differ from t at most in the action count
OtherActions(t) == {[t EXCEPT !.action = a] : a \in Actions}

\* C4: for duration > 0, get_mean_speed is get_distance() / duration_h for
\* Running and SportsWalking and length_pool * count_pool / 1000 /
\* duration_h for Swimming; Swimming objects that differ only in the action
\* count have the same speed and calories and different distances.
C4_MeanSpeed ==
    (Called("get_mean_speed") /\ Positive(training.duration_h)) =>
        /\ call.ret.exc = "none"
        /\ training.cls # "Swimming" =>
              call.ret.val = Quot(get_distance(training).val,
                                  training.duration_h)
        /\ training.cls = "Swimming" =>
              /\ call.ret.val =
                    Quot(Quot(RMul(training.length_pool, training.count_pool),
                              R(1000)), training.duration_h)
              /\ \A t \in OtherActions(training) :
                    /\ get_mean_speed(t) = call.ret
                    /\ get_spent_calories(t) = get_spent_calories(training)
                    /\ t.action # training.action =>
                          get_distance(t) # get_distance(training)

C4_Witness ==
    /\ Called("get_mean_speed")
    /\ training.cls = "Swimming"
    /\ training.action = R(720)
    /\ training.duration_h = <<1, 2>>
    /\ call.ret.val = R(2)

\* C5: for SportsWalking with duration > 0 and height > 0,
\* get_spent_calories is (0.035 * weight + floor(speed^2 / height) * 0.029 *
\* weight) * duration_h * 60; when speed^2 < height it is 0.035 * weight *
\* duration_h * 60; SportsWalking(9000, 1, 75, 180) has distance 5.85, speed
\* 5.85 and calories 157.5.
C5_WalkingCalories ==
    (/\ Called("get_spent_calories")
     /\ training.cls = "SportsWalking"
     /\ Positive(training.duration_h)
     /\ Positive(training.height)) =>
        LET speed == get_mean_speed(training).val
            sq == RMul(speed, speed)
            minutes == RMul(training.duration_h, R(60))
            base == RMul(Norm(35, 1000), training.weight)
            perH == RMul(Norm(29, 1000), training.weight)
        IN  /\ call.ret.exc = "none"
            /\ call.ret.val =
                  RMul(RAdd(base, RMul(Floor(Quot(sq, training.height)),
                                       perH)), minutes)
            /\ RLess(sq, training.height) =>
                  call.ret.val = RMul(base, minutes)
            /\ (/\ training.action = R(9000)
                /\ training.duration_h = R(1)
                /\ training.weight = R(75)
                /\ training.height = R(180)) =>
                  /\ get_distance(training).val = Norm(585, 100)
                  /\ speed = Norm(585, 100)
                  /\ call.ret.val = Norm(1575, 10)

C5_Witness ==
    /\ Called("get_spent_calories")
    /\ training.cls = "SportsWalking"
    /\ training.action = R(15000)
    /\ training.duration_h = <<1, 2>>
    /\ training.height = R(180)
    /\ training.weight = R(75)
    /\ call.ret.val = RMul(RAdd(Norm(2625, 1000), Norm(2 * 2175, 1000)), R(30))

\* C6: for Running with duration > 0, get_spent_calories is
\* (18 * speed - 20) * weight / 1000 * duration_h * 60 with
\* speed = action * 0.65 / 1000 / duration_h.
C6_RunningCalories ==
    (/\ Called("get_spent_calories")
     /\ training.cls = "Running"
     /\ Positive(training.duration_h)) =>
        LET speed == Quot(Quot(RMul(training.action, Norm(65, 100)), R(1000)),
                          training.duration_h)
            minutes == RMul(training.duration_h, R(60))
        IN  /\ call.ret.exc = "none"
            /\ training.duration_m = minutes
            /\ call.ret.val =
                  RMul(Quot(RMul(RSub(RMul(R(18), speed), R(20)),
                                 training.weight), R(1000)), minutes)

C6_Witness ==
    /\ Called("get_spent_calories")
    /\ training.cls = "Running"
    /\ training.duration_h = <<1, 2>>
    /\ training.action = R(9000)
    /\ call.ret.exc = "none"

IsRunningExample ==
    /\ training.cls = "Running"
    /\ training.action = R(15000)
    /\ training.duration_h = R(1)
    /\ training.weight = R(75)

\* C7 as stated: Running(15000, 1, 75) has distance 9.75, speed 9.75 and
\* calories 638.25.
C7_Original ==
    (Called("show_training_info") /\ IsRunningExample) =>
        /\ call.ret.exc = "none"
        /\ call.ret.val.distance = Norm(975, 100)
        /\ call.ret.val.speed = Norm(975, 100)
        /\ call.ret.val.calories = Norm(63825, 100)

\* C7 amended: Running(15000, 1, 75) has distance 9.75, speed 9.75 and
\* calories 699.75.
C7_RunningExample ==
    (Called("show_training_info") /\ IsRunningExample) =>
        /\ call.ret.exc = "none"
        /\ call.ret.val.distance = Norm(975, 100)
        /\ call.ret.val.speed = Norm(975, 100)
        /\ call.ret.val.calories = Norm(69975, 100)

C7_Witness ==
    /\ Called("show_training_info")
    /\ IsRunningExample
    /\ pkg.workout_type = "RUN"
    /\ call.ret.exc = "none"

\* C8: for Swimming with duration > 0, get_spent_calories is
\* (speed + 1.1) * 2 * weight with the pool-based speed and no factor for
\* the duration in minutes; Swimming(720, 1, 80, 25, 40) has distance
\* 0.9936, speed 1.0 and calories 336.0.
C8_SwimmingCalories ==
    (/\ Called("get_spent_calories")
     /\ training.cls = "Swimming"
     /\ Positive(training.duration_h)) =>
        LET speed == Quot(Quot(RMul(training.length_pool, training.count_pool),
                               R(1000)), training.duration_h)
        IN  /\ call.ret.exc = "none"
            /\ call.ret.val =
                  RMul(RMul(RAdd(speed, Norm(11, 10)), R(2)), training.weight)
            /\ (/\ training.action = R(720)
                /\ training.duration_h = R(1)
                /\ training.weight = R(80)
                /\ training.length_pool = R(25)
                /\ training.count_pool = R(40)) =>
                  /\ get_distance(training).val = Norm(9936, 10000)
                  /\ get_mean_speed(training).val = R(1)
                  /\ call.ret.val = R(336)

C8_Witness ==
    /\ Called("get_spent_calories")
    /\ training.cls = "Swimming"
    /\ training.action = R(720)
    /\ training.duration_h = R(1)
    /\ training.weight = R(80)
    /\ training.length_pool = R(25)
    /\ training.count_pool = R(40)
    /\ call.ret.val = R(336)

\* C9: an object of any class can be constructed with duration 0; its
\* get_distance succeeds, and get_mean_speed, get_spent_calories and
\* show_training_info raise ZeroDivisionError, so no InfoMessage is made.
C9_ZeroDuration ==
    /\ (/\ pkg.workout_type \in {"RUN", "SWM", "WLK"}
        /\ Len(pkg.data) >= 3
        /\ pkg.data[2] = R(0)
        /\ outcome # "TypeError") =>
          outcome = "Training" /\ training.duration_h = R(0)
    /\ (Constructed /\ training.duration_h = R(0)) =>
          /\ outcome = "Training"
          /\ call.op = "get_distance" => call.ret.exc = "none"
          /\ call.op \in {"get_mean_speed", "get_spent_calories",
                          "show_training_info"} =>
                call.ret = Raise("ZeroDivisionError")

C9_Witness ==
    /\ Called("show_training_info")
    /\ training.cls = "Swimming"
    /\ training.duration_h = R(0)
    /\ first["get_distance"].exc = "none"
    /\ first["get_mean_speed"].exc = "ZeroDivisionError"
    /\ first["get_spent_calories"].exc = "ZeroDivisionError"
    /\ call.ret.exc = "ZeroDivisionError"

\* C10: the session operations change no stored field: whatever has been
\* called, the fields are the constructed values, duration_m is
\* duration_h * 60, and an operation called again returns what it returned
\* the first time.
C10_NoMutation ==
    (Constructed /\ call.op \in SessionOps) =>
        /\ BoundTo(training, pkg.data)
        /\ training.duration_m = RMul(training.duration_h, R(60))
        /\ call.ret = first[call.op]

C10_Witness ==
    /\ Constructed
    /\ call.op = "get_spent_calories"
    /\ call.again
    /\ call.ret.exc = "none"
    /\ \A op \in SessionOps : first[op].exc = "none"

====
